---- MODULE Spec2Model ----
(***************************************************************************)
(* Wallet data synchronisation engine of Mikrypto: the indexer and price   *)
(* clients, the transaction classifier, the balance and transaction caches *)
(* kept in local storage, and the single-wallet, batch, load-more and      *)
(* force-refresh entry points (src/lib/api.ts, cache section of            *)
(* src/lib/hooks.ts).                                                      *)
(*                                                                         *)
(* Amounts are held in satoshi: the code's division by 100000000 is a      *)
(* change of unit that keeps zero, sign and order, which is all the        *)
(* program's conditions read.  A Transaction keeps id, type, amount, from, *)
(* to, status and fee; hash (a copy of id), timestamp and blockHeight are  *)
(* display fields no condition of the engine reads and are left out.       *)
(***************************************************************************)
EXTENDS Integers, Sequences, FiniteSets, TLC

(* ---------------------------------------------------------------- bounds *)
\* transactions that may be broadcast after the initial state, per address
MaxFresh == 2
\* the clock may run this many milliseconds past the balance TTL
MaxSkew == 1
\* wallets in a batch sync
MaxBatch == 2
MaxTwin == 2

(* ------------------------------------------------------ program constants *)
\* api.ts:92  hasMore: txs.length === 25 ; the indexer's page size
PAGE_SIZE == 25
\* hooks.ts:158  60 * 60 * 1000
BALANCE_CACHE_TTL == 3600000
\* an absent optional value (lastTxId?: string); transaction ids are >= 1
Undefined == 0
\* a null / absent cache entry
Null == [isNull |-> TRUE]

Addresses == {"a1", "a2", "a3"}
AddrOf(i) == <<"a1", "a2", "a3">>[i]
NickOf(i) == <<"n1", "n2", "n3">>[i]
\* a StoredWallet: id, nickname, address
StoredWallet(i) == [id |-> i, nickname |-> NickOf(i), address |-> AddrOf(i)]

\* the calls of fetchWalletData / forceRefreshWalletData that may be in flight
Procs == {"p1"}

(* -------------------------------------------------------------- helpers *)
RECURSIVE SeqFilterOut(_, _)
\* the records of s whose id is not in ids, in order (Array.filter)
SeqFilterOut(s, ids) ==
    IF s = <<>> THEN <<>>
    ELSE IF Head(s).id \in ids THEN SeqFilterOut(Tail(s), ids)
         ELSE <<Head(s)>> \o SeqFilterOut(Tail(s), ids)

Ids(s) == {s[i].id : i \in 1..Len(s)}
Count(s, t) == Cardinality({i \in 1..Len(s) : s[i].id = t})
NoDuplicateIds(s) == \A i, j \in 1..Len(s) : s[i].id = s[j].id => i = j

\* n, n-1, ..., 1
Descending(n) == [i \in 1..n |-> n + 1 - i]

RECURSIVE SetToDesc(_)
\* the ids of a set, largest first
SetToDesc(S) ==
    IF S = {} THEN <<>>
    ELSE LET m == CHOOSE x \in S : \A y \in S : y <= x
         IN <<m>> \o SetToDesc(S \ {m})

Min(a, b) == IF a < b THEN a ELSE b

(* ------------------------------------------- the indexer's raw transaction *)
ExternalAddress == "ext"

\* The indexer's record of transaction t of address a: odd ids pay a from an
\* external address, even ids spend from a to an external address with change.
RawTx(t, a, confirmed) ==
    [txid |-> t,
     vin |-> <<[prevout |-> [scriptpubkey_address |->
                  IF t % 2 = 0 THEN a ELSE ExternalAddress, value |-> 10 * t + 5]]>>,
     vout |-> IF t % 2 = 0
              THEN <<[scriptpubkey_address |-> a, value |-> 3],
                     [scriptpubkey_address |-> ExternalAddress, value |-> 10 * t]>>
              ELSE <<[scriptpubkey_address |-> a, value |-> 10 * t]>>,
     fee |-> 2,
     status |-> [confirmed |-> confirmed]]

(* ------------------------------------------------- transaction classifier *)
HasInputFromUser(tx, userAddress) ==
    \E i \in 1..Len(tx.vin) : tx.vin[i].prevout.scriptpubkey_address = userAddress

HasOutputToUser(tx, userAddress) ==
    \E i \in 1..Len(tx.vout) : tx.vout[i].scriptpubkey_address = userAddress

\* mutant: the first output, whoever it pays
FindOutputAny(tx, userAddress, toUser) == IF Len(tx.vout) > 0 THEN 1 ELSE 0

\* mutant: the last matching output instead of the first
FindOutputLast(tx, userAddress, toUser) ==
    LET hits == {i \in 1..Len(tx.vout) :
                   (tx.vout[i].scriptpubkey_address = userAddress) = toUser}
    IN IF hits = {} THEN 0 ELSE CHOOSE i \in hits : \A j \in hits : i >= j

\* Array.find: index of the first output (not) paying userAddress, 0 if none
FindOutput(tx, userAddress, toUser) ==
    LET hits == {i \in 1..Len(tx.vout) :
                   (tx.vout[i].scriptpubkey_address = userAddress) = toUser}
    IN IF hits = {} THEN 0 ELSE CHOOSE i \in hits : \A j \in hits : i <= j

\* an address the indexer left out (prevout of a coinbase input, output
\* script without an address); absent values are falsy
NoAddress == ""
\* x || "Unknown"
OrUnknown(x) == IF x = NoAddress THEN "Unknown" ELSE x

formatTransaction(tx, userAddress) ==
    LET fromUser == HasInputFromUser(tx, userAddress)
        toUser == HasOutputToUser(tx, userAddress)
        r == FindOutput(tx, userAddress, FALSE)
        u == FindOutput(tx, userAddress, TRUE)
        base == [id |-> tx.txid,
                 status |-> IF tx.status.confirmed THEN "confirmed" ELSE "pending",
                 fee |-> tx.fee]
    IN IF fromUser
       THEN base @@ [type |-> "send",
                     amount |-> IF r = 0 THEN 0 ELSE tx.vout[r].value,
                     from |-> userAddress,
                     to |-> IF r = 0 THEN "Unknown"
                            ELSE OrUnknown(tx.vout[r].scriptpubkey_address)]
       ELSE IF toUser
       THEN base @@ [type |-> "receive",
                     amount |-> tx.vout[u].value,
                     from |-> IF Len(tx.vin) = 0 THEN "Unknown"
                              ELSE OrUnknown(tx.vin[1].prevout.scriptpubkey_address),
                     to |-> userAddress]
       ELSE base @@ [type |-> "receive", amount |-> 0,
                     from |-> "Unknown", to |-> "Unknown"]

\* txs.filter(tx => tx && tx.txid).map(tx => formatTransaction(tx, address))
FormatAll(txs, address) ==
    [i \in 1..Len(txs) |-> formatTransaction(txs[i], address)]

(* ---------------------------------------------------- pagination client *)
RECURSIVE IndexOf(_, _, _)
\* position of id t in the sequence of ids c at or after position i, 0 if none
IndexOf(c, t, i) ==
    IF i > Len(c) THEN 0 ELSE IF c[i] = t THEN i ELSE IndexOf(c, t, i + 1)

\* The indexer's answer to the confirmed-transactions request: the PAGE_SIZE
\* newest confirmed transactions, or those following afterTxId.
IndexerChainPage(c, a, afterTxId) ==
    LET start == IF afterTxId = Undefined THEN 0 ELSE IndexOf(c, afterTxId, 1)
        n == Min(PAGE_SIZE, Len(c) - start)
    IN IF afterTxId # Undefined /\ start = 0 THEN <<>>
       ELSE [i \in 1..n |-> RawTx(c[start + i], a, TRUE)]

\* The indexer's answer to the mempool request, newest first
IndexerMempool(m, a) ==
    LET ids == SetToDesc(m)
    IN [i \in 1..Len(ids) |-> RawTx(ids[i], a, FALSE)]

\* mutant: any page with a record announcing more
HasMorePageNonEmpty(txs) == Len(txs) > 0

\* api.ts:92 hasMore: txs.length === 25
HasMorePage(txs) == Len(txs) = PAGE_SIZE

\* getAddressTransactionsPage: ok = FALSE is a failed indexer call
getAddressTransactionsPage(ok, c, a, afterTxId) ==
    IF ~ok THEN [txs |-> <<>>, hasMore |-> FALSE]
    ELSE LET txs == IndexerChainPage(c, a, afterTxId)
         IN IF Len(txs) = 0 THEN [txs |-> <<>>, hasMore |-> FALSE]
            ELSE [txs |-> txs, hasMore |-> HasMorePage(txs)]

getAddressMempoolTxs(ok, m, a) == IF ~ok THEN <<>> ELSE IndexerMempool(m, a)

\* mutant: the cursor taken from the first record of the page
LastTxIdOfFirst(txs) == IF Len(txs) > 0 THEN txs[1].txid ELSE Undefined

\* txs.length > 0 ? txs[txs.length - 1]?.txid : undefined
LastTxIdOf(txs) == IF Len(txs) > 0 THEN txs[Len(txs)].txid ELSE Undefined

(* ---------------------------------------------------------- cache store *)
\* A cache blob is the function from the addresses it holds to their entries.
EmptyCache == [x \in {} |-> Null]
\* a stored blob JSON.parse throws on
Malformed == [malformed |-> TRUE]
Readable(blob) == blob # Malformed

CacheExpired(entry, t) == t - entry.timestamp > BALANCE_CACHE_TTL

getBalanceCache(cache, address, t) ==
    IF ~Readable(cache) THEN Null
    ELSE IF address \notin DOMAIN cache THEN Null
    ELSE IF CacheExpired(cache[address], t) THEN Null
    ELSE cache[address]

\* cache[address] = entry
Put(cache, address, entry) ==
    [x \in DOMAIN cache \cup {address} |->
        IF x = address THEN entry ELSE cache[x]]

\* delete cache[address]
Remove(cache, address) == [x \in DOMAIN cache \ {address} |-> cache[x]]

saveBalanceCache(cache, address, balance, balanceUSD, t) ==
    IF ~Readable(cache) THEN cache
    ELSE Put(cache, address,
             [balance |-> balance, balanceUSD |-> balanceUSD, timestamp |-> t])

getTxCache(cache, address) ==
    IF ~Readable(cache) THEN Null
    ELSE IF address \in DOMAIN cache THEN cache[address] ELSE Null

saveTxCache(cache, address, transactions, hasMore, lastTxId) ==
    IF ~Readable(cache) THEN cache
    ELSE Put(cache, address,
             [transactions |-> transactions, lastTxId |-> lastTxId, hasMore |-> hasMore])

\* mutant: the merge without the filter on ids already held
prependTxCacheUnfiltered(cache, address, newTxs) ==
    LET existing == getTxCache(cache, address)
    IN IF existing = Null THEN saveTxCache(cache, address, newTxs, FALSE, Undefined)
       ELSE saveTxCache(cache, address, newTxs \o existing.transactions,
                        existing.hasMore, existing.lastTxId)

prependTxCache(cache, address, newTxs) ==
    LET existing == getTxCache(cache, address)
    IN IF existing = Null THEN saveTxCache(cache, address, newTxs, FALSE, Undefined)
       ELSE LET uniqueNewTxs == SeqFilterOut(newTxs, Ids(existing.transactions))
                merged == uniqueNewTxs \o existing.transactions
            IN saveTxCache(cache, address, merged, existing.hasMore, existing.lastTxId)

appendTxCache(cache, address, moreTxs, hasMore, lastTxId) ==
    LET existing == getTxCache(cache, address)
    IN IF existing = Null THEN saveTxCache(cache, address, moreTxs, hasMore, lastTxId)
       ELSE LET uniqueMoreTxs == SeqFilterOut(moreTxs, Ids(existing.transactions))
                merged == existing.transactions \o uniqueMoreTxs
            IN saveTxCache(cache, address, merged, hasMore, lastTxId)

\* clearAddressCache, the balance blob: a parse error leaves it as it is
clearAddressBalance(balances, address) ==
    IF ~Readable(balances) THEN balances ELSE Remove(balances, address)

\* clearAddressCache, the transaction blob: the one try block ends at the
\* first parse error, so a malformed balance blob leaves the transactions too
clearAddressTxs(balances, txs, address) ==
    IF ~Readable(balances) \/ ~Readable(txs) THEN txs ELSE Remove(txs, address)


(* ----------------------------------------------------- price and balance *)
\* getBitcoinPrice: data.bitcoin?.usd || 0, and 0 when the request fails
getBitcoinPrice(feed) == IF feed.up THEN feed.usd ELSE 0

\* getAddressData: (funded - spent) + (mempoolFunded - mempoolSpent); throws
\* when the indexer call fails
getAddressData(ok, stats) ==
    [threw |-> ~ok,
     balance |-> IF ok THEN (stats.funded - stats.spent) + (stats.mfunded - stats.mspent)
                 ELSE 0]

\* balanceCache && balanceCache.balance > 0
UseCachedBalance(entry) == entry # Null /\ entry.balance > 0

\* mutant: the balance cached whatever the price
WorthCachingAnyPrice(balance, btcPrice) == balance >= 0

\* balance >= 0 && btcPrice > 0
WorthCaching(balance, btcPrice) == balance >= 0 /\ btcPrice > 0

\* txCache && txCache.transactions.length > 0
HasCachedTxs(entry) == entry # Null /\ Len(entry.transactions) > 0

(* ------------------------------------------------------------- the state *)
VARIABLES
    chain,          \* indexer: address -> confirmed transaction ids, newest first
    mempool,        \* indexer: address -> set of unconfirmed transaction ids
    fresh,          \* address -> number of transactions broadcast so far
    stats,          \* indexer: address -> funded / spent totals
    down,           \* addresses whose indexer calls currently fail
    priceFeed,      \* price feed: [up, usd]
    now,            \* Date.now()
    balanceCache,   \* local storage blob mikrypto_balance_cache
    txCache,        \* local storage blob mikrypto_tx_cache
    pc,             \* per call of fetchWalletData / forceRefreshWalletData: position
    loc,            \* per call: its local variables
    bpc,            \* fetchAllWalletsData: position
    batch,          \* fetchAllWalletsData: its local variables
    viaNewer,       \* history: <<address, id>> merged by prependTxCache while pending
    wallets,        \* local storage blob of the tracked wallets: their indexes, in order
    unit,           \* the last direct call of a storage or classifier function
    settings        \* local storage blob mikrypto_settings

envVars == <<chain, mempool, fresh, stats, down, priceFeed, now>>
storeVars == <<balanceCache, txCache>>
procVars == <<pc, loc>>
batchVars == <<bpc, batch>>
histVars == <<viaNewer>>
walletVars == <<wallets, unit, settings>>
vars == <<envVars, storeVars, procVars, batchVars, histVars, walletVars>>

\* the call of fetchWalletData made by fetchAllWalletsData
BatchProc == "batch"
\* the callers of a specification with two overlapping timer firings
Twin == Procs \cup {"p2"}
AllProcs == Twin \cup {BatchProc}

NoSnapshot ==
    [kind |-> "none", id |-> 0, nickname |-> "", address |-> "",
     balance |-> 0, balanceUSD |-> 0, transactions |-> <<>>,
     hasMoreTxs |-> FALSE, lastTxId |-> Undefined]

\* { ...storedWallet, balance, balanceUSD, transactions, hasMoreTxs, lastTxId }
Snapshot(kind, i, balance, balanceUSD, transactions, hasMoreTxs, lastTxId) ==
    [kind |-> kind, id |-> StoredWallet(i).id, nickname |-> StoredWallet(i).nickname,
     address |-> StoredWallet(i).address,
     balance |-> balance, balanceUSD |-> balanceUSD, transactions |-> transactions,
     hasMoreTxs |-> hasMoreTxs, lastTxId |-> lastTxId]

IdleLoc ==
    [w |-> 0, op |-> "none",
     balanceCache |-> Null, txCache |-> Null,
     rawEntry |-> Null, startedAt |-> 0,
     balance |-> 0, balanceUSD |-> 0,
     txsResult |-> [txs |-> <<>>, hasMore |-> FALSE], mempoolTxs |-> <<>>,
     gotPage |-> FALSE, gotMempool |-> FALSE,
     addrCalls |-> 0, priceCalls |-> 0, pageCalls |-> 0, mempoolCalls |-> 0,
     afterTxId |-> Undefined,
     anyOk |-> FALSE, result |-> NoSnapshot]

\* a finished call: its result, and what it read and requested on the way
Finished(l, result) ==
    [l EXCEPT !.result = result,
              !.txCache = Null,
              !.txsResult = [txs |-> <<>>, hasMore |-> FALSE], !.mempoolTxs = <<>>,
              !.gotPage = FALSE, !.gotMempool = FALSE]

IdleBatch ==
    [ws |-> <<>>, i |-> 0, btcPrice |-> 0, wallets |-> <<>>, cur |-> NoSnapshot,
     delays |-> 0, priceCalls |-> 0, trace |-> <<>>, curTrace |-> <<>>]

StatsOf(sats) == [funded |-> sats + 4, spent |-> 4, mfunded |-> 0, mspent |-> 0]
BalanceValues == {0, 7}
PriceFeeds == {[up |-> FALSE, usd |-> 0], [up |-> TRUE, usd |-> 3]}
\* confirmed history lengths at the start: short ones, and ones around a page
ShortHistories == {0, 1}
PagedHistories == {PAGE_SIZE - 1, PAGE_SIZE, PAGE_SIZE + 5}
TickSteps == {BALANCE_CACHE_TTL \div 2, (BALANCE_CACHE_TTL \div 2) + 1}

\* no direct call made yet
NoCall == [op |-> "none"]

InitBase ==
    /\ mempool = [a \in Addresses |-> {}]
    /\ fresh = [a \in Addresses |-> 0]
    /\ down = {}
    /\ now = 0
    /\ balanceCache = EmptyCache
    /\ txCache = EmptyCache
    /\ pc = [p \in AllProcs |-> "idle"]
    /\ loc = [p \in AllProcs |-> IdleLoc]
    /\ bpc = "idle"
    /\ batch = IdleBatch
    /\ viaNewer = {}
    /\ wallets = <<1, 2, 3>>
    /\ settings = Null

InitCommon == InitBase /\ unit = NoCall

(* ------------------------------------------------------- the environment *)
\* a new transaction of address a enters the mempool
Broadcast(a) ==
    /\ fresh[a] < MaxFresh
    /\ mempool' = [mempool EXCEPT
                     ![a] = @ \cup {Len(chain[a]) + Cardinality(mempool[a]) + 1}]
    /\ fresh' = [fresh EXCEPT ![a] = @ + 1]
    /\ UNCHANGED <<walletVars, chain, stats, down, priceFeed, now, storeVars, procVars,
                   batchVars, histVars>>

\* a block confirms transaction t of address a
Confirm(a) ==
    \E t \in mempool[a] :
        /\ mempool' = [mempool EXCEPT ![a] = @ \ {t}]
        /\ chain' = [chain EXCEPT ![a] = <<t>> \o @]
        /\ UNCHANGED <<walletVars, fresh, stats, down, priceFeed, now, storeVars, procVars,
                       batchVars, histVars>>

\* the indexer starts or stops failing for address a
IndexerToggle(a) ==
    /\ down' = IF a \in down THEN down \ {a} ELSE down \cup {a}
    /\ UNCHANGED <<walletVars, chain, mempool, fresh, stats, priceFeed, now, storeVars,
                   procVars, batchVars, histVars>>

\* the price feed changes, or starts or stops failing
PriceChange ==
    /\ priceFeed' \in PriceFeeds \ {priceFeed}
    /\ UNCHANGED <<walletVars, chain, mempool, fresh, stats, down, now, storeVars, procVars,
                   batchVars, histVars>>

\* the balance of address a changes on the indexer
BalanceChange(a) ==
    /\ \E v \in BalanceValues :
          /\ StatsOf(v) # stats[a]
          /\ stats' = [stats EXCEPT ![a] = StatsOf(v)]
    /\ UNCHANGED <<walletVars, chain, mempool, fresh, down, priceFeed, now, storeVars,
                   procVars, batchVars, histVars>>

\* time passes
Tick ==
    /\ \E d \in TickSteps :
          /\ now + d <= BALANCE_CACHE_TTL + MaxSkew
          /\ now' = now + d
    /\ UNCHANGED <<walletVars, chain, mempool, fresh, stats, down, priceFeed, storeVars,
                   procVars, batchVars, histVars>>


(* ------------------------------------------------- fetchWalletData, steps *)
\* history: what a merge of txs into the cache of address a leaves behind
MergedNewer(a, txs) ==
    viaNewer' = viaNewer \cup
        {<<a, txs[k].id>> : k \in {j \in 1..Len(txs) : txs[j].status = "pending"}}

\* history: the entry of address a was written anew or removed
Rewritten(a) == viaNewer' = {x \in viaNewer : x[1] # a}

\* where the call goes once the balance is known (api.ts:248)
TxBranch(entry) == IF HasCachedTxs(entry) THEN "mempool" ELSE "first"

\* history: the stored balance entry of a, whatever its age
RawEntry(blob, a) ==
    IF Readable(blob) /\ a \in DOMAIN blob THEN blob[a] ELSE Null

\* api.ts:216-233: read both caches; use the cached balance or ask for a fresh one
BeginSync(p, i) ==
    /\ pc[p] = "idle"
    /\ LET a == AddrOf(i)
           bc == getBalanceCache(balanceCache, a, now)
           tc == getTxCache(txCache, a)
           hit == UseCachedBalance(bc)
       IN /\ loc' = [loc EXCEPT ![p] =
                 [IdleLoc EXCEPT !.w = i, !.op = "sync",
                                 !.balanceCache = bc, !.txCache = tc,
                                 !.rawEntry = RawEntry(balanceCache, a),
                                 !.startedAt = now,
                                 !.balance = IF hit THEN bc.balance ELSE 0,
                                 !.balanceUSD = IF hit THEN bc.balanceUSD ELSE 0]]
          /\ pc' = [pc EXCEPT ![p] = IF hit THEN TxBranch(tc) ELSE "balance"]
    /\ UNCHANGED <<walletVars, envVars, storeVars, histVars>>

\* a caller other than the batch sync calls fetchWalletData(StoredWallet(i))
SyncStart(p, i) ==
    /\ BeginSync(p, i)
    /\ UNCHANGED batchVars

\* api.ts:235-245: Promise.all([getAddressData, getBitcoinPrice]); a failed
\* address request throws into the catch of api.ts:295
SyncFetchBalance(p) ==
    /\ pc[p] = "balance"
    /\ loc[p].op = "sync"
    /\ LET a == AddrOf(loc[p].w)
           addressData == getAddressData(a \notin down, stats[a])
           btcPrice == getBitcoinPrice(priceFeed)
           balance == addressData.balance
           balanceUSD == addressData.balance * btcPrice
           called == [loc[p] EXCEPT !.addrCalls = @ + 1, !.priceCalls = @ + 1]
       IN IF addressData.threw
          THEN /\ loc' = [loc EXCEPT ![p] = called]
               /\ pc' = [pc EXCEPT ![p] = "fallback"]
               /\ UNCHANGED balanceCache
          ELSE /\ loc' = [loc EXCEPT ![p] =
                     [called EXCEPT !.balance = balance, !.balanceUSD = balanceUSD,
                                    !.anyOk = TRUE]]
               /\ pc' = [pc EXCEPT ![p] = TxBranch(loc[p].txCache)]
               /\ balanceCache' =
                     IF WorthCaching(balance, btcPrice)
                     THEN saveBalanceCache(balanceCache, a, balance, balanceUSD, now)
                     ELSE balanceCache
    /\ UNCHANGED <<walletVars, envVars, txCache, batchVars, histVars>>

\* api.ts:250: the mempool request of a call that found cached transactions
SyncFetchMempool(p) ==
    /\ pc[p] = "mempool"
    /\ LET a == AddrOf(loc[p].w)
       IN loc' = [loc EXCEPT ![p].mempoolTxs = getAddressMempoolTxs(a \notin down, mempool[a], a),
                             ![p].mempoolCalls = @ + 1,
                             ![p].anyOk = @ \/ a \notin down]
    /\ pc' = [pc EXCEPT ![p] = "merge"]
    /\ UNCHANGED <<walletVars, envVars, storeVars, batchVars, histVars>>

\* api.ts:251-264, 286-294: prepend the pending records, re-read the cache, return
SyncMerge(p) ==
    /\ pc[p] = "merge"
    /\ LET i == loc[p].w
           a == AddrOf(i)
           formattedMempoolTxs == FormatAll(loc[p].mempoolTxs, a)
           cache2 == IF Len(formattedMempoolTxs) > 0
                     THEN prependTxCache(txCache, a, formattedMempoolTxs)
                     ELSE txCache
           updatedCache == getTxCache(cache2, a)
       IN /\ txCache' = cache2
          /\ IF Len(formattedMempoolTxs) > 0
             THEN IF getTxCache(txCache, a) = Null
                  THEN Rewritten(a)
                  ELSE MergedNewer(a, SeqFilterOut(formattedMempoolTxs,
                                          Ids(getTxCache(txCache, a).transactions)))
             ELSE UNCHANGED viaNewer
          /\ loc' = [loc EXCEPT ![p] = Finished(loc[p],
                Snapshot("full", i, loc[p].balance, loc[p].balanceUSD,
                         IF updatedCache = Null THEN <<>> ELSE updatedCache.transactions,
                         IF updatedCache = Null THEN FALSE ELSE updatedCache.hasMore,
                         IF updatedCache = Null THEN Undefined ELSE updatedCache.lastTxId))]
    /\ pc' = [pc EXCEPT ![p] = "done"]
    /\ UNCHANGED <<walletVars, envVars, balanceCache, batchVars>>

\* api.ts:268 / 430: the confirmed-page request of Promise.all
FetchPage(p) ==
    /\ pc[p] = "first"
    /\ ~loc[p].gotPage
    /\ LET a == AddrOf(loc[p].w)
       IN loc' = [loc EXCEPT ![p].txsResult =
                        getAddressTransactionsPage(a \notin down, chain[a], a, Undefined),
                             ![p].gotPage = TRUE,
                             ![p].pageCalls = @ + 1,
                             ![p].anyOk = @ \/ a \notin down]
    /\ UNCHANGED <<walletVars, pc, envVars, storeVars, batchVars, histVars>>

\* api.ts:269 / 431: the mempool request of Promise.all
FetchPending(p) ==
    /\ pc[p] = "first"
    /\ ~loc[p].gotMempool
    /\ LET a == AddrOf(loc[p].w)
       IN loc' = [loc EXCEPT ![p].mempoolTxs = getAddressMempoolTxs(a \notin down, mempool[a], a),
                             ![p].gotMempool = TRUE,
                             ![p].mempoolCalls = @ + 1,
                             ![p].anyOk = @ \/ a \notin down]
    /\ UNCHANGED <<walletVars, pc, envVars, storeVars, batchVars, histVars>>

AllTxsPageFirst(mempoolTxs, pageTxs) == pageTxs \o mempoolTxs

\* const allTxs = [...mempoolTxs, ...txsResult.txs]
AllTxs(mempoolTxs, pageTxs) == mempoolTxs \o pageTxs

\* api.ts:272-294: classify, write a new cache entry, return
SyncSave(p) ==
    /\ pc[p] = "first"
    /\ loc[p].op = "sync"
    /\ loc[p].gotPage /\ loc[p].gotMempool
    /\ LET i == loc[p].w
           a == AddrOf(i)
           txsResult == loc[p].txsResult
           transactions == FormatAll(AllTxs(loc[p].mempoolTxs, txsResult.txs), a)
           hasMoreTxs == txsResult.hasMore
           lastTxId == LastTxIdOf(txsResult.txs)
       IN /\ txCache' = saveTxCache(txCache, a, transactions, hasMoreTxs, lastTxId)
          /\ Rewritten(a)
          /\ loc' = [loc EXCEPT ![p] = Finished(loc[p],
                Snapshot("full", i, loc[p].balance, loc[p].balanceUSD,
                         transactions, hasMoreTxs, lastTxId))]
    /\ pc' = [pc EXCEPT ![p] = "done"]
    /\ UNCHANGED <<walletVars, envVars, balanceCache, batchVars>>

\* mutant: the inner catch rethrowing instead of returning zeros
FallbackFailureThrows(i) == Snapshot("thrown", i, 0, 0, <<>>, FALSE, Undefined)

\* what leaves the inner try of api.ts:299-323 when the address request fails
FallbackFailure(i) == Snapshot("zero", i, 0, 0, <<>>, FALSE, Undefined)

\* api.ts:295-324: the retry with address data and price only, else zeros
SyncFallback(p) ==
    /\ pc[p] = "fallback"
    /\ LET i == loc[p].w
           a == AddrOf(i)
           addressData == getAddressData(a \notin down, stats[a])
           btcPrice == getBitcoinPrice(priceFeed)
           called == [loc[p] EXCEPT !.addrCalls = @ + 1, !.priceCalls = @ + 1,
                                    !.anyOk = @ \/ a \notin down]
       IN loc' = [loc EXCEPT ![p] = Finished(called,
                    IF addressData.threw THEN FallbackFailure(i)
                    ELSE Snapshot("minimal", i, addressData.balance,
                                  addressData.balance * btcPrice, <<>>, FALSE, Undefined))]
    /\ pc' = [pc EXCEPT ![p] = "done"]
    /\ UNCHANGED <<walletVars, envVars, storeVars, batchVars, histVars>>

\* the caller takes the returned snapshot (or the thrown error)
Return(p) ==
    /\ pc[p] = "done"
    /\ pc' = [pc EXCEPT ![p] = "idle"]
    /\ loc' = [loc EXCEPT ![p] = IdleLoc]
    /\ UNCHANGED <<walletVars, envVars, storeVars, batchVars, histVars>>


(* ---------------------------------------------- forceRefreshWalletData *)
ThrownError(i) == Snapshot("thrown", i, 0, 0, <<>>, FALSE, Undefined)

\* api.ts:428-436: the address and price requests of Promise.all; a failed
\* address request rejects the whole call, which rethrows (api.ts:461-464)
ForceStart(p, i) ==
    /\ pc[p] = "idle"
    /\ LET a == AddrOf(i)
           addressData == getAddressData(a \notin down, stats[a])
           btcPrice == getBitcoinPrice(priceFeed)
           called == [IdleLoc EXCEPT !.w = i, !.op = "force", !.startedAt = now,
                                     !.addrCalls = 1, !.priceCalls = 1]
       IN IF addressData.threw
          THEN /\ loc' = [loc EXCEPT ![p] = Finished(called, ThrownError(i))]
               /\ pc' = [pc EXCEPT ![p] = "done"]
          ELSE /\ loc' = [loc EXCEPT ![p] =
                     [called EXCEPT !.balance = addressData.balance,
                                    !.balanceUSD = addressData.balance * btcPrice,
                                    !.anyOk = TRUE]]
               /\ pc' = [pc EXCEPT ![p] = "first"]
    /\ UNCHANGED <<walletVars, envVars, storeVars, batchVars, histVars>>

\* api.ts:438-460: classify, overwrite both cache entries, return
ForceSave(p) ==
    /\ pc[p] = "first"
    /\ loc[p].op = "force"
    /\ loc[p].gotPage /\ loc[p].gotMempool
    /\ LET i == loc[p].w
           a == AddrOf(i)
           txsResult == loc[p].txsResult
           transactions == FormatAll(AllTxs(loc[p].mempoolTxs, txsResult.txs), a)
           hasMoreTxs == txsResult.hasMore
           lastTxId == LastTxIdOf(txsResult.txs)
       IN /\ balanceCache' = saveBalanceCache(balanceCache, a, loc[p].balance,
                                               loc[p].balanceUSD, now)
          /\ txCache' = saveTxCache(txCache, a, transactions, hasMoreTxs, lastTxId)
          /\ Rewritten(a)
          /\ loc' = [loc EXCEPT ![p] = Finished(loc[p],
                Snapshot("full", i, loc[p].balance, loc[p].balanceUSD,
                         transactions, hasMoreTxs, lastTxId))]
    /\ pc' = [pc EXCEPT ![p] = "done"]
    /\ UNCHANGED <<walletVars, envVars, batchVars>>

(* ------------------------------------------------- loadMoreTransactions *)
\* mutant: the cache appended to whatever the page holds
AppendAlways(transactions) == TRUE

\* api.ts:409: if (transactions.length > 0) appendTxCache(...)
AppendNeeded(transactions) == Len(transactions) > 0

\* api.ts:400: the page request after the caller's cursor
LoadMoreStart(p, i, afterTxId) ==
    /\ pc[p] = "idle"
    /\ LET a == AddrOf(i)
       IN loc' = [loc EXCEPT ![p] =
              [IdleLoc EXCEPT !.w = i, !.op = "more", !.afterTxId = afterTxId,
                              !.startedAt = now, !.pageCalls = 1,
                              !.anyOk = a \notin down,
                              !.txsResult = getAddressTransactionsPage(
                                               a \notin down, chain[a], a, afterTxId)]]
    /\ pc' = [pc EXCEPT ![p] = "append"]
    /\ UNCHANGED <<walletVars, envVars, storeVars, batchVars, histVars>>

\* api.ts:402-413: classify, append to the cache, return the new records
LoadMoreAppend(p) ==
    /\ pc[p] = "append"
    /\ LET i == loc[p].w
           a == AddrOf(i)
           page == loc[p].txsResult
           transactions == FormatAll(page.txs, a)
           newLastTxId == LastTxIdOf(page.txs)
       IN /\ txCache' = IF AppendNeeded(transactions)
                        THEN appendTxCache(txCache, a, transactions, page.hasMore,
                                           newLastTxId)
                        ELSE txCache
          /\ loc' = [loc EXCEPT ![p] = Finished(loc[p],
                Snapshot("more", i, 0, 0, transactions, page.hasMore, newLastTxId))]
    /\ pc' = [pc EXCEPT ![p] = "done"]
    /\ UNCHANGED <<walletVars, envVars, balanceCache, batchVars, histVars>>

\* a stored blob is damaged
CorruptBalances ==
    /\ Readable(balanceCache)
    /\ balanceCache' = Malformed
    /\ UNCHANGED <<walletVars, envVars, txCache, procVars, batchVars, histVars>>

CorruptTxs ==
    /\ Readable(txCache)
    /\ txCache' = Malformed
    /\ viaNewer' = {}
    /\ UNCHANGED <<walletVars, envVars, balanceCache, procVars, batchVars>>

(* ------------------------------------------------------ evict and clear *)
\* hooks.ts:567-589 clearAddressCache, as deleteStoredWallet calls it
Evict(a) ==
    /\ balanceCache' = clearAddressBalance(balanceCache, a)
    /\ txCache' = clearAddressTxs(balanceCache, txCache, a)
    /\ Rewritten(a)
    /\ UNCHANGED <<walletVars, envVars, procVars, batchVars>>

\* mutant: the key left in local storage
removeItemKept(blob) == blob

\* localStorage.removeItem(key): reading the key afterwards gives no blob
removeItem(blob) == EmptyCache

\* hooks.ts:597-598: the two keys clearAllCaches removes
ClearCaches ==
    /\ balanceCache' = removeItem(balanceCache)
    /\ txCache' = removeItem(txCache)
    /\ viaNewer' = {}

\* hooks.ts:594-599 clearAllCaches
ClearAll ==
    /\ ClearCaches
    /\ UNCHANGED <<walletVars, envVars, procVars, batchVars>>


(* ------------------------------------------------- fetchAllWalletsData *)
\* mutant: the re-check of a zero balance made whatever the price
DoubleCheckAlways(balance, btcPrice) == balance = 0

\* api.ts:342: wallet.balance === 0 && btcPrice > 0
DoubleCheck(balance, btcPrice) == balance = 0 /\ btcPrice > 0

\* mutant: the delay taken for a single wallet too
DelayNeededAlways(n) == n > 0

\* api.ts:358: storedWallets.length > 1
DelayNeeded(n) == n > 1

\* mutant: the loop going on without the snapshot of the wallet it synced
PushWalletLost(collected, wallet) == collected

\* mutant: the snapshot put in front of the collected ones
UnshiftWallet(collected, wallet) == <<wallet>> \o collected

\* api.ts:355: wallets.push(wallet)
PushWallet(collected, wallet) == Append(collected, wallet)

\* history of one wallet of the batch: what its sync gave and did
TraceOf(l, delays) ==
    [syncBalance |-> l.result.balance, anyOk |-> l.anyOk,
     cacheHit |-> UseCachedBalance(l.balanceCache),
     refetches |-> 0, refetched |-> 0, delaysBefore |-> delays]

\* api.ts:330-335: the one price request up front
BatchStart(ws) ==
    /\ bpc = "idle"
    /\ batch' = [IdleBatch EXCEPT !.ws = ws, !.i = 1,
                                  !.btcPrice = getBitcoinPrice(priceFeed),
                                  !.priceCalls = 1]
    /\ bpc' = "next"
    /\ UNCHANGED <<walletVars, envVars, storeVars, procVars, histVars>>

\* api.ts:337-339: the loop calls fetchWalletData for the next wallet
BatchCallSync ==
    /\ bpc = "next"
    /\ BeginSync(BatchProc, batch.ws[batch.i])
    /\ bpc' = "sync"
    /\ batch' = [batch EXCEPT !.curTrace = <<batch.delays>>]

\* after wallets.push(wallet): the delay, the next wallet or the end
AfterPush(n, i) == IF DelayNeeded(n) THEN "delay" ELSE IF i < n THEN "next" ELSE "done"

\* api.ts:339-355: the snapshot is back; double-check a zero balance or push
BatchAfterSync ==
    /\ bpc = "sync"
    /\ pc[BatchProc] = "done"
    /\ LET wallet == loc[BatchProc].result
           tr == TraceOf(loc[BatchProc], batch.curTrace[1])
           b1 == [batch EXCEPT !.priceCalls = @ + loc[BatchProc].priceCalls]
       IN IF DoubleCheck(wallet.balance, batch.btcPrice)
          THEN /\ batch' = [b1 EXCEPT !.cur = wallet, !.curTrace = <<tr>>]
               /\ bpc' = "refetch"
          ELSE /\ batch' = [b1 EXCEPT !.wallets = PushWallet(@, wallet),
                                      !.trace = Append(@, tr),
                                      !.curTrace = <<>>,
                                      !.i = IF DelayNeeded(Len(batch.ws)) THEN @ ELSE @ + 1]
               /\ bpc' = AfterPush(Len(batch.ws), batch.i)
    /\ pc' = [pc EXCEPT ![BatchProc] = "idle"]
    /\ loc' = [loc EXCEPT ![BatchProc] = IdleLoc]
    /\ UNCHANGED <<walletVars, envVars, storeVars, histVars>>

\* api.ts:343-355: the extra address request; a positive balance replaces the zero
BatchRefetch ==
    /\ bpc = "refetch"
    /\ LET a == batch.cur.address
           addressData == getAddressData(a \notin down, stats[a])
           replace == ~addressData.threw /\ addressData.balance > 0
           wallet == IF replace
                     THEN [batch.cur EXCEPT !.balance = addressData.balance,
                                            !.balanceUSD = addressData.balance * batch.btcPrice]
                     ELSE batch.cur
           tr == [batch.curTrace[1] EXCEPT !.refetches = @ + 1,
                                           !.refetched = addressData.balance,
                                           !.anyOk = @ \/ a \notin down]
       IN /\ balanceCache' = IF replace
                             THEN saveBalanceCache(balanceCache, a, wallet.balance,
                                                   wallet.balanceUSD, now)
                             ELSE balanceCache
          /\ batch' = [batch EXCEPT !.wallets = PushWallet(@, wallet),
                                    !.trace = Append(@, tr),
                                    !.cur = NoSnapshot, !.curTrace = <<>>,
                                    !.i = IF DelayNeeded(Len(batch.ws)) THEN @ ELSE @ + 1]
          /\ bpc' = AfterPush(Len(batch.ws), batch.i)
    /\ UNCHANGED <<walletVars, envVars, txCache, procVars, histVars>>

\* api.ts:358-360: await the 200 ms timer
BatchDelay ==
    /\ bpc = "delay"
    /\ batch' = [batch EXCEPT !.delays = @ + 1, !.i = @ + 1]
    /\ bpc' = IF batch.i < Len(batch.ws) THEN "next" ELSE "done"
    /\ UNCHANGED <<walletVars, envVars, storeVars, procVars, histVars>>

\* the caller takes the returned list
BatchReturn ==
    /\ bpc = "done"
    /\ bpc' = "idle"
    /\ batch' = IdleBatch
    /\ UNCHANGED <<walletVars, envVars, storeVars, procVars, histVars>>

(* ------------------------------------------------------- specifications *)
\* The cursors a caller passes to loadMoreTransactions: those that snapshots,
\* earlier load-more results and the cache entry hold, and the newest
\* confirmed id as the sample of any other id the caller may pass.
Cursors(a) ==
    ( {loc[p].result.lastTxId : p \in AllProcs}
      \cup (IF getTxCache(txCache, a) = Null THEN {}
            ELSE {getTxCache(txCache, a).lastTxId})
      \cup (IF Len(chain[a]) > 0 THEN {chain[a][1]} ELSE {}) ) \ {Undefined}

\* a caller calls loadMoreTransactions(address of wallet i, some cursor)
LoadMore(p, i) == \E c \in Cursors(AddrOf(i)) : LoadMoreStart(p, i, c)

\* the first transaction of address a enters the mempool
BroadcastFirst(a) ==
    /\ fresh[a] = 0
    /\ mempool' = [mempool EXCEPT
                     ![a] = @ \cup {Len(chain[a]) + Cardinality(mempool[a]) + 1}]
    /\ fresh' = [fresh EXCEPT ![a] = @ + 1]
    /\ UNCHANGED <<walletVars, chain, stats, down, priceFeed, now, storeVars, procVars,
                   batchVars, histVars>>

HistoryOf(h) == [a \in Addresses |-> IF a = AddrOf(1) THEN Descending(h) ELSE <<>>]

\* One tracked address with a short history: syncs, force refreshes,
\* load-more calls, evictions and clears against a mempool that receives and
\* confirms transactions and an indexer that may fail.
Init ==
    /\ InitCommon
    /\ \E h \in ShortHistories : chain = HistoryOf(h)
    /\ stats = [a \in Addresses |-> StatsOf(7)]
    /\ priceFeed = [up |-> TRUE, usd |-> 3]

Next ==
    \/ \E p \in Procs : SyncStart(p, 1)
    \/ \E p \in Procs : SyncFetchBalance(p)
    \/ \E p \in Procs : SyncFetchMempool(p)
    \/ \E p \in Procs : SyncMerge(p)
    \/ \E p \in Procs : FetchPage(p)
    \/ \E p \in Procs : FetchPending(p)
    \/ \E p \in Procs : SyncSave(p)
    \/ \E p \in Procs : SyncFallback(p)
    \/ \E p \in Procs : ForceStart(p, 1)
    \/ \E p \in Procs : ForceSave(p)
    \/ \E p \in Procs : Return(p)
    \/ \E p \in Procs : LoadMore(p, 1)
    \/ \E p \in Procs : LoadMoreAppend(p)
    \/ Evict(AddrOf(1))
    \/ ClearAll
    \/ Broadcast(AddrOf(1))
    \/ Confirm(AddrOf(1))
    \/ IndexerToggle(AddrOf(1))

Spec == Init /\ [][Next]_vars

\* Sync and load-more against a history of about one page and more, with at
\* most one transaction waiting in the mempool and an indexer that answers.
InitPaged ==
    /\ InitCommon
    /\ \E h \in PagedHistories : chain = HistoryOf(h)
    /\ stats = [a \in Addresses |-> StatsOf(7)]
    /\ priceFeed = [up |-> TRUE, usd |-> 3]

NextPaged ==
    \/ \E p \in Procs : SyncStart(p, 1)
    \/ \E p \in Procs : SyncFetchBalance(p)
    \/ \E p \in Procs : SyncFetchMempool(p)
    \/ \E p \in Procs : SyncMerge(p)
    \/ \E p \in Procs : FetchPage(p)
    \/ \E p \in Procs : FetchPending(p)
    \/ \E p \in Procs : SyncSave(p)
    \/ \E p \in Procs : Return(p)
    \/ \E p \in Procs : LoadMore(p, 1)
    \/ \E p \in Procs : LoadMoreAppend(p)
    \/ Evict(AddrOf(1))
    \/ ClearAll
    \/ BroadcastFirst(AddrOf(1))
    \/ Confirm(AddrOf(1))

SpecPaged == InitPaged /\ [][NextPaged]_vars

\* One tracked address with one confirmed transaction, a clock, a balance and
\* a price that change, an indexer and a price feed that may fail, and stored
\* blobs that may be damaged.
InitBalance ==
    /\ InitCommon
    /\ chain = HistoryOf(1)
    /\ stats \in {[a \in Addresses |-> StatsOf(v)] : v \in BalanceValues}
    /\ priceFeed \in PriceFeeds

NextBalance ==
    \/ \E p \in Procs : SyncStart(p, 1)
    \/ \E p \in Procs : SyncFetchBalance(p)
    \/ \E p \in Procs : SyncFetchMempool(p)
    \/ \E p \in Procs : SyncMerge(p)
    \/ \E p \in Procs : FetchPage(p)
    \/ \E p \in Procs : FetchPending(p)
    \/ \E p \in Procs : SyncSave(p)
    \/ \E p \in Procs : SyncFallback(p)
    \/ \E p \in Procs : Return(p)
    \/ ClearAll
    \/ CorruptBalances
    \/ CorruptTxs
    \/ IndexerToggle(AddrOf(1))
    \/ PriceChange
    \/ BalanceChange(AddrOf(1))
    \/ Tick

SpecBalance == InitBalance /\ [][NextBalance]_vars

\* Batch syncs of up to MaxBatch tracked wallets, each with its own address
\* and no transactions yet, against an indexer that may fail for the
\* addresses of wallets 1 and 2 and a price feed that may fail.  Wallet 1
\* holds a balance, the others hold none.
BatchInputs == {[k \in 1..n |-> n + 1 - k] : n \in 1..MaxBatch}

InitBatch ==
    /\ InitCommon
    /\ chain = [a \in Addresses |-> <<>>]
    /\ stats = [a \in Addresses |-> StatsOf(IF a = AddrOf(1) THEN 7 ELSE 0)]
    /\ priceFeed \in PriceFeeds

NextBatch ==
    \/ \E ws \in BatchInputs : BatchStart(ws)
    \/ BatchCallSync
    \/ SyncFetchBalance(BatchProc)
    \/ FetchPage(BatchProc)
    \/ FetchPending(BatchProc)
    \/ SyncSave(BatchProc)
    \/ SyncFallback(BatchProc)
    \/ BatchAfterSync
    \/ BatchRefetch
    \/ BatchDelay
    \/ BatchReturn
    \/ \E i \in 1..2 : IndexerToggle(AddrOf(i))
    \/ PriceChange

SpecBatch == InitBatch /\ [][NextBatch]_vars

(* ================================================================ claims *)
EntryOf(a) == getTxCache(txCache, a)
Finished1(p, op) == pc[p] = "done" /\ loc[p].op = op

\* C1: a transaction merged by a sync's merge-newer step while pending, whose
\* confirmed record a later merge brings, is afterwards held exactly once by
\* the cache entry, with status confirmed.  (Stated for the moment the later
\* merge, the append of a load-more page, has just returned.)
C1_ConfirmedSupersedesPending ==
    \A p \in Procs :
        Finished1(p, "more") =>
            LET a == AddrOf(loc[p].w)
                page == loc[p].result.transactions
            IN \A k \in 1..Len(page) :
                  (<<a, page[k].id>> \in viaNewer /\ page[k].status = "confirmed")
                  => /\ EntryOf(a) # Null
                     /\ Count(EntryOf(a).transactions, page[k].id) = 1
                     /\ \A j \in 1..Len(EntryOf(a).transactions) :
                           EntryOf(a).transactions[j].id = page[k].id
                           => EntryOf(a).transactions[j].status = "confirmed"

\* C2: no transaction cache entry ever holds two records with the same id.
C2_NoDuplicateIds ==
    Readable(txCache) =>
        \A a \in DOMAIN txCache : NoDuplicateIds(txCache[a].transactions)

\* C10: a first sync stores the classified pending set followed by the
\* classified first confirmed page, with the id of the page's last record as
\* cursor and the page's hasMore; a load-more from a cursor returns the
\* records that follow it on the indexer, up to a page, so that a history of
\* a page and five gives a full first page with hasMore and then the last five.
C10_FirstSyncThenLoadMore ==
    /\ [][\A p \in Procs :
            (pc[p] = "first" /\ loc[p].op = "sync" /\ pc'[p] = "done") =>
               LET a == AddrOf(loc[p].w)
                   pending == loc[p].mempoolTxs
                   page == loc[p].txsResult.txs
                   e == getTxCache(txCache', a)
               IN /\ e # Null
                  /\ Len(e.transactions) = Len(pending) + Len(page)
                  /\ \A k \in 1..Len(pending) :
                        e.transactions[k] = formatTransaction(pending[k], a)
                  /\ \A k \in 1..Len(page) :
                        e.transactions[Len(pending) + k] = formatTransaction(page[k], a)
                  /\ e.lastTxId = IF Len(page) = 0 THEN Undefined
                                  ELSE page[Len(page)].txid
                  /\ e.hasMore = loc[p].txsResult.hasMore
                  /\ (Len(page) = PAGE_SIZE => e.hasMore)
                  /\ loc'[p].result.transactions = e.transactions
                  /\ loc'[p].result.lastTxId = e.lastTxId
                  /\ loc'[p].result.hasMoreTxs = e.hasMore]_vars
    /\ [](\A p \in Procs :
            (Finished1(p, "more") /\ loc[p].anyOk) =>
               LET a == AddrOf(loc[p].w)
                   c == chain[a]
                   at == IndexOf(c, loc[p].afterTxId, 1)
                   n == Min(PAGE_SIZE, Len(c) - at)
                   r == loc[p].result
               IN /\ at > 0
                  /\ Len(r.transactions) = n
                  /\ \A k \in 1..n : /\ r.transactions[k].id = c[at + k]
                                     /\ r.transactions[k].status = "confirmed"
                  /\ r.hasMoreTxs = (n = PAGE_SIZE)
                  /\ (at = PAGE_SIZE /\ Len(c) = PAGE_SIZE + 5
                        => Len(r.transactions) = 5 /\ ~r.hasMoreTxs))

\* C10 witness: after a first sync cached a full page with its cursor, a
\* load-more from that cursor has returned the remaining five records.
C10_Witness ==
    \E p \in Procs :
        /\ Finished1(p, "more")
        /\ Len(loc[p].result.transactions) = 5
        /\ ~loc[p].result.hasMoreTxs
        /\ loc[p].afterTxId = chain[AddrOf(1)][PAGE_SIZE]
        /\ EntryOf(AddrOf(1)) # Null
        /\ Len(EntryOf(AddrOf(1)).transactions) = PAGE_SIZE + 5
        /\ NoDuplicateIds(EntryOf(AddrOf(1)).transactions)


\* C3: a sync that finds a balance entry younger than the TTL and non-zero
\* uses its balance and quote balance and issues no address and no price
\* request; a sync that finds none, an expired one (age at or past the TTL) or
\* a zero one issues both requests.
C3_CachedBalanceDispatch ==
    \A p \in Procs :
        Finished1(p, "sync") =>
            LET e == loc[p].rawEntry
                valid == e # Null /\ loc[p].startedAt - e.timestamp < BALANCE_CACHE_TTL
            IN IF valid /\ e.balance > 0
               THEN /\ loc[p].addrCalls = 0 /\ loc[p].priceCalls = 0
                    /\ loc[p].result.balance = e.balance
                    /\ loc[p].result.balanceUSD = e.balanceUSD
               ELSE loc[p].addrCalls >= 1 /\ loc[p].priceCalls >= 1

\* C4: getBalance returns null when the address has no entry or the entry's
\* age is at or past the TTL, and the stored entry otherwise.
C4_GetBalanceTtl ==
    LET a == AddrOf(1)
        e == RawEntry(balanceCache, a)
        r == getBalanceCache(balanceCache, a, now)
    IN IF e = Null \/ now - e.timestamp >= BALANCE_CACHE_TTL THEN r = Null ELSE r = e

\* C5: a single-wallet sync never throws: it returns the full snapshot after
\* at most one address request, or else, after a second address request, the
\* minimal snapshot (no transactions, hasMore false), or else the all-zero
\* snapshot; it never asks the address endpoint more than twice.
C5_SyncNeverThrows ==
    \A p \in Procs :
        Finished1(p, "sync") =>
            LET r == loc[p].result
            IN /\ r.kind \in {"full", "minimal", "zero"}
               /\ r.id = StoredWallet(loc[p].w).id
               /\ r.address = StoredWallet(loc[p].w).address
               /\ loc[p].addrCalls <= 2
               /\ r.kind = "full" => loc[p].addrCalls <= 1
               /\ r.kind \in {"minimal", "zero"} =>
                     /\ loc[p].addrCalls = 2
                     /\ r.transactions = <<>> /\ ~r.hasMoreTxs
               /\ r.kind = "minimal" => loc[p].anyOk
               /\ r.kind = "zero" => r.balance = 0 /\ r.balanceUSD = 0

\* C5 witness: a sync whose two address requests both failed has returned
\* the all-zero snapshot while the price feed and a stored blob fail too.
C5_Witness ==
    \E p \in Procs :
        /\ Finished1(p, "sync")
        /\ loc[p].result.kind = "zero"
        /\ loc[p].addrCalls = 2
        /\ ~priceFeed.up
        /\ ~Readable(txCache)

BatchIdentity ==
    /\ Len(batch.wallets) = Len(batch.ws)
    /\ \A k \in 1..Len(batch.ws) :
          /\ batch.wallets[k].id = StoredWallet(batch.ws[k]).id
          /\ batch.wallets[k].nickname = StoredWallet(batch.ws[k]).nickname
          /\ batch.wallets[k].address = StoredWallet(batch.ws[k]).address

ZeroSnapshot(w) == w.balance = 0 /\ w.balanceUSD = 0 /\ w.transactions = <<>>

\* while the batch works on one wallet, the cache entries of every other
\* address stay as they are
OthersUntouched ==
    \A a \in Addresses \ {AddrOf(batch.ws[batch.i])} :
        /\ RawEntry(balanceCache', a) = RawEntry(balanceCache, a)
        /\ getTxCache(txCache', a) = getTxCache(txCache, a)

BatchFrame == [][(bpc = "sync" \/ bpc = "refetch") => OthersUntouched]_vars

\* C6 as claimed: a finished batch holds one snapshot per wallet in input
\* order with the wallet's id, nickname and address; a wallet all of whose
\* indexer calls failed has a zero snapshot; its processing leaves the other
\* addresses' cache entries, from which the other snapshots are made, alone.
C6_FailingWalletIsZero ==
    /\ [](bpc = "done" =>
            /\ BatchIdentity
            /\ \A k \in 1..Len(batch.trace) :
                  ~batch.trace[k].anyOk => ZeroSnapshot(batch.wallets[k]))
    /\ BatchFrame

\* C6 amended: as C6, for a failing wallet whose sync found no valid non-zero
\* balance entry; one whose sync did find such an entry carries the cached
\* balance instead.
C6_FailingUncachedWalletIsZero ==
    /\ [](bpc = "done" =>
            /\ BatchIdentity
            /\ \A k \in 1..Len(batch.trace) :
                  ~batch.trace[k].anyOk =>
                     /\ ~batch.trace[k].cacheHit => ZeroSnapshot(batch.wallets[k])
                     /\ batch.trace[k].cacheHit =>
                           /\ batch.wallets[k].balance > 0
                           /\ batch.wallets[k].balance = batch.trace[k].syncBalance)
    /\ BatchFrame

\* C6 witness: a batch of two has finished; all indexer calls of one wallet
\* failed and it got the zero snapshot, the other got a full one.
C6_Witness ==
    /\ bpc = "done"
    /\ Len(batch.ws) = 2
    /\ \E k, j \in 1..2 :
          /\ ~batch.trace[k].anyOk /\ ~batch.trace[k].cacheHit
          /\ ZeroSnapshot(batch.wallets[k])
          /\ batch.trace[j].anyOk /\ batch.wallets[j].kind = "full"
          /\ batch.wallets[j].balance > 0

\* C7: a finished batch sync has issued exactly one price request in total.
C7_OnePriceFetch == bpc = "done" => batch.priceCalls = 1

\* C8: in a batch of more than one wallet, exactly k - 1 delays have passed
\* when the sync of wallet k starts and while it runs (none before the
\* first); in a batch of one wallet no delay ever passes.
C8_DelayBetweenWallets ==
    /\ bpc \in {"sync", "refetch"} =>
          batch.delays = IF Len(batch.ws) > 1 THEN batch.i - 1 ELSE 0
    /\ \A k \in 1..Len(batch.trace) :
          batch.trace[k].delaysBefore = IF Len(batch.ws) > 1 THEN k - 1 ELSE 0
    /\ Len(batch.ws) = 1 => batch.delays = 0

\* C8 witness: the sync of the second wallet of a batch runs after one delay.
C8_Witness ==
    /\ bpc = "sync"
    /\ batch.i = 2
    /\ batch.delays = 1
    /\ Len(batch.trace) = 1

\* C9 as claimed: every wallet of the batch whose sync gave balance zero got
\* exactly one extra address request, whatever the up-front price.
C9_ZeroAlwaysRefetched ==
    \A k \in 1..Len(batch.trace) :
        batch.trace[k].syncBalance = 0 => batch.trace[k].refetches = 1

\* C9 amended: a wallet whose sync gave balance zero got exactly one extra
\* address request if the up-front price was positive, and none if it was 0;
\* a positive answer replaced the zero (and the quote balance), anything
\* else left the zero; a wallet with a non-zero balance got none.
C9_ZeroRefetchedWhenPriced ==
    \A k \in 1..Len(batch.trace) :
        LET t == batch.trace[k]
            w == batch.wallets[k]
        IN /\ (t.syncBalance = 0 /\ batch.btcPrice > 0) =>
                 /\ t.refetches = 1
                 /\ IF t.refetched > 0
                    THEN /\ w.balance = t.refetched
                         /\ w.balanceUSD = t.refetched * batch.btcPrice
                    ELSE w.balance = 0
           /\ (t.syncBalance = 0 /\ batch.btcPrice = 0) =>
                 t.refetches = 0 /\ w.balance = 0
           /\ t.syncBalance # 0 => t.refetches = 0 /\ w.balance = t.syncBalance

\* C9 witness: a wallet's sync gave zero, the one extra request answered a
\* positive balance, and the snapshot carries it.
C9_Witness ==
    \E k \in 1..Len(batch.trace) :
        /\ batch.trace[k].syncBalance = 0
        /\ batch.trace[k].refetches = 1
        /\ batch.trace[k].refetched > 0
        /\ batch.wallets[k].balance = batch.trace[k].refetched

\* the step in which the load-more call of p returns
LoadMoreReturns(p) == pc[p] = "append" /\ pc'[p] = "done"

\* C11: when a load-more call whose page request was answered returns, the
\* cache entry of the address, if there is one, has the hasMore flag and the
\* cursor the call returns, also when the page is empty.
C11_LoadMoreUpdatesCursor ==
    [][\A p \in Procs :
          (LoadMoreReturns(p) /\ loc[p].anyOk) =>
             LET e == getTxCache(txCache', AddrOf(loc[p].w))
             IN e # Null =>
                   /\ e.hasMore = loc'[p].result.hasMoreTxs
                   /\ e.lastTxId = loc'[p].result.lastTxId]_vars

(* ------------------------------------------- the merge functions, directly *)
\* ids of the transactions handed to the merge functions
MergeIds == {1, 2, 3}
\* a batch handed to a merge function holds at most this many records
MaxMerge == 2

\* the classified record of transaction t of the first address
TxOf(t, confirmed) == formatTransaction(RawTx(t, AddrOf(1), confirmed), AddrOf(1))

\* the batches a caller may hand over: any ids, in any order, repeats included
Batches(confirmed) ==
    UNION {{[k \in 1..n |-> TxOf(f[k], confirmed)] : f \in [1..n -> MergeIds]} :
              n \in 0..MaxMerge}

\* the entries saveTxCache may have stored from a page: distinct confirmed ids
MergeEntries ==
    {[transactions |-> b, lastTxId |-> IF Len(b) = 0 THEN Undefined ELSE b[Len(b)].id,
      hasMore |-> h] : b \in {x \in Batches(TRUE) : NoDuplicateIds(x)}, h \in BOOLEAN}

\* appendTxCache(address, moreTxs, hasMore, lastTxId) called on the stored entry
MergeOlder(moreTxs, hasMore) ==
    /\ unit.op = "none"
    /\ txCache' = appendTxCache(txCache, AddrOf(1), moreTxs, hasMore,
                                IF Len(moreTxs) = 0 THEN Undefined
                                ELSE moreTxs[Len(moreTxs)].id)
    /\ unit' = [op |-> "mergeOlder", before |-> getTxCache(txCache, AddrOf(1)),
                batch |-> moreTxs]
    /\ UNCHANGED <<envVars, balanceCache, procVars, batchVars, histVars, wallets, settings>>

\* prependTxCache(address, newTxs) called on the stored entry
MergeNewer(newTxs) ==
    /\ unit.op \in {"none", "mergeOlder"}
    /\ txCache' = prependTxCache(txCache, AddrOf(1), newTxs)
    /\ unit' = [op |-> "mergeNewer", before |-> getTxCache(txCache, AddrOf(1)),
                batch |-> newTxs]
    /\ UNCHANGED <<envVars, balanceCache, procVars, batchVars, histVars, wallets, settings>>

\* The two merge functions applied to a stored entry: mergeOlder, then
\* mergeNewer, over every entry and every batch of the bounded sets.
InitMerge ==
    /\ InitCommon
    /\ chain = HistoryOf(0)
    /\ stats = [a \in Addresses |-> StatsOf(7)]
    /\ priceFeed = [up |-> TRUE, usd |-> 3]

StoreEntry(e) ==
    /\ unit.op = "none"
    /\ getTxCache(txCache, AddrOf(1)) = Null
    /\ txCache' = saveTxCache(txCache, AddrOf(1), e.transactions, e.hasMore, e.lastTxId)
    /\ UNCHANGED <<envVars, balanceCache, procVars, batchVars, histVars, walletVars>>

NextMerge ==
    \/ \E e \in MergeEntries : StoreEntry(e)
    \/ \E b \in Batches(TRUE), h \in BOOLEAN : MergeOlder(b, h)
    \/ \E b \in Batches(FALSE) : MergeNewer(b)

SpecMerge == InitMerge /\ [][NextMerge]_vars

\* C12: after mergeOlder or mergeNewer on an existing entry, the entry holds
\* no id twice and has grown by exactly the number of ids of the batch that
\* it did not hold before, whatever the batch (repeated ids included).
C12_MergeAddsNewIdsOnce ==
    (unit.op \in {"mergeOlder", "mergeNewer"} /\ unit.before # Null) =>
        LET before == unit.before.transactions
            after == getTxCache(txCache, AddrOf(1)).transactions
        IN /\ NoDuplicateIds(after)
           /\ Len(after) = Len(before) + Cardinality(Ids(unit.batch) \ Ids(before))

(* ------------------------------------------------ the classifier, directly *)
\* inputs and outputs of a raw transaction handed to the classifier
MaxVin == 2
MaxVout == 2

\* the addresses an input's previous output or an output may carry
RawAddresses == {AddrOf(1), ExternalAddress, NoAddress}

\* raw transactions of the indexer: any inputs and outputs over RawAddresses,
\* the k-th output worth 10 * k, a fee or none, confirmed or not
RawTxs ==
    UNION {UNION {
        {[txid |-> 1,
          vin |-> [k \in 1..n |-> [prevout |-> [scriptpubkey_address |-> i[k],
                                                value |-> 50]]],
          vout |-> [k \in 1..m |-> [scriptpubkey_address |-> o[k], value |-> 10 * k]],
          fee |-> f,
          status |-> [confirmed |-> c]] :
            i \in [1..n -> RawAddresses], o \in [1..m -> RawAddresses],
            f \in {0, 2}, c \in BOOLEAN} :
        n \in 0..MaxVin} : m \in 0..MaxVout}

\* api.ts:136: formatTransaction(tx, userAddress) called on a raw transaction
Classify ==
    /\ unit.op = "raw"
    /\ unit' = [op |-> "classified", tx |-> unit.tx,
                result |-> formatTransaction(unit.tx, AddrOf(1))]
    /\ UNCHANGED <<envVars, storeVars, procVars, batchVars, histVars, wallets, settings>>

\* The classifier applied to every raw transaction of the bounded set, for
\* the first address as the watched one.
InitClassify ==
    /\ InitBase
    /\ chain = HistoryOf(0)
    /\ stats = [a \in Addresses |-> StatsOf(7)]
    /\ priceFeed = [up |-> TRUE, usd |-> 3]
    /\ unit \in {[op |-> "raw", tx |-> t] : t \in RawTxs}

NextClassify == Classify

SpecClassify == InitClassify /\ [][NextClassify]_vars

\* the watched address is the previous-output address of some input
InInputs(tx) == \E k \in DOMAIN tx.vin : tx.vin[k].prevout.scriptpubkey_address = AddrOf(1)
\* the watched address is paid by some output
InOutputs(tx) == \E k \in DOMAIN tx.vout : tx.vout[k].scriptpubkey_address = AddrOf(1)
\* k is the first output whose address is in S
FirstOutputIn(tx, k, S) ==
    /\ k \in DOMAIN tx.vout
    /\ tx.vout[k].scriptpubkey_address \in S
    /\ \A j \in 1..(k - 1) : tx.vout[j].scriptpubkey_address \notin S

\* C13: a raw transaction that pays the watched address and spends nothing
\* of it is classified receive, with the value of the first output paying the
\* address as amount and the first input's previous-output address, or
\* "Unknown" when there is none, as counterparty.
C13_ReceiveClassified ==
    (unit.op = "classified" /\ InOutputs(unit.tx) /\ ~InInputs(unit.tx)) =>
        /\ unit.result.type = "receive"
        /\ unit.result.to = AddrOf(1)
        /\ \A k \in DOMAIN unit.tx.vout :
              FirstOutputIn(unit.tx, k, {AddrOf(1)}) =>
                 unit.result.amount = unit.tx.vout[k].value
        /\ unit.result.from =
              IF unit.tx.vin = <<>>
                 \/ unit.tx.vin[1].prevout.scriptpubkey_address = NoAddress
              THEN "Unknown"
              ELSE unit.tx.vin[1].prevout.scriptpubkey_address

\* C13 witness: a receive through the second output, from an input whose
\* previous output has no address, has been classified.
C13_Witness ==
    /\ unit.op = "classified"
    /\ ~InInputs(unit.tx)
    /\ FirstOutputIn(unit.tx, 2, {AddrOf(1)})
    /\ unit.tx.vin # <<>>
    /\ unit.tx.vin[1].prevout.scriptpubkey_address = NoAddress
    /\ unit.result.amount = 20
    /\ unit.result.from = "Unknown"

\* C14: a raw transaction that spends from the watched address is classified
\* send, whether or not an output pays the address back, with the value and
\* the address of the first output addressed to somebody else as amount and
\* counterparty; outputs paying the watched address never count.
C14_SendClassified ==
    (unit.op = "classified" /\ InInputs(unit.tx)) =>
        /\ unit.result.type = "send"
        /\ \A k \in DOMAIN unit.tx.vout :
              FirstOutputIn(unit.tx, k, {ExternalAddress}) =>
                 /\ unit.result.amount = unit.tx.vout[k].value
                 /\ unit.result.to = unit.tx.vout[k].scriptpubkey_address

\* C15: a raw transaction that neither spends from nor pays the watched
\* address yields no Transaction.
C15_UninvolvedIsNull ==
    (unit.op = "classified" /\ ~InInputs(unit.tx) /\ ~InOutputs(unit.tx)) =>
        unit.result = Null

\* C16: a Transaction classified receive has no fee attached.
C16_FeeOnlyOnSend ==
    (unit.op = "classified" /\ unit.result # Null /\ unit.result.type = "receive") =>
        "fee" \notin DOMAIN unit.result

(* ------------------------------------- tracked wallets and the cache store *)
\* ids handed to deleteStoredWallet: those of the three wallets and an unknown one
WalletIds == {1, 2, 3, 4}

Tracked(ws) == {ws[k] : k \in DOMAIN ws}

\* hooks.ts:217-229 addStoredWallet: the new wallet goes to the end of the list
addStoredWallet(i) ==
    /\ i \notin Tracked(wallets)
    /\ wallets' = Append(wallets, i)
    /\ unit' = [op |-> "add", id |-> i]
    /\ UNCHANGED <<envVars, storeVars, procVars, batchVars, histVars, settings>>

\* hooks.ts:248-263 deleteStoredWallet: false for an id that is not tracked,
\* else the list without the wallet and clearAddressCache of its address
deleteStoredWallet(id) ==
    IF id \notin Tracked(wallets)
    THEN /\ unit' = [op |-> "delete", id |-> id, result |-> FALSE]
         /\ UNCHANGED <<envVars, storeVars, procVars, batchVars, histVars, wallets, settings>>
    ELSE /\ wallets' = SelectSeq(wallets, LAMBDA w : w # id)
         /\ balanceCache' = clearAddressBalance(balanceCache, AddrOf(id))
         /\ txCache' = clearAddressTxs(balanceCache, txCache, AddrOf(id))
         /\ Rewritten(AddrOf(id))
         /\ unit' = [op |-> "delete", id |-> id, result |-> TRUE]
         /\ UNCHANGED <<envVars, procVars, batchVars, settings>>

\* hooks.ts:447-464 saveBalanceCache called for the address of wallet i
PutBalance(i) ==
    /\ balanceCache' = saveBalanceCache(balanceCache, AddrOf(i), 7, 21, now)
    /\ unit' = [op |-> "saveBalance", address |-> AddrOf(i)]
    /\ UNCHANGED <<envVars, txCache, procVars, batchVars, histVars, wallets, settings>>

\* hooks.ts:487-509 saveTxCache called for the address of wallet i, as a sync
\* that got one confirmed transaction calls it
PutTxs(i) ==
    /\ txCache' = saveTxCache(txCache, AddrOf(i),
                              FormatAll(<<RawTx(1, AddrOf(i), TRUE)>>, AddrOf(i)),
                              FALSE, 1)
    /\ Rewritten(AddrOf(i))
    /\ unit' = [op |-> "saveTxs", address |-> AddrOf(i)]
    /\ UNCHANGED <<envVars, balanceCache, procVars, batchVars, wallets, settings>>

\* hooks.ts:594-599 clearAllCaches, called directly
clearAllCaches ==
    /\ ClearCaches
    /\ unit' = [op |-> "clear"]
    /\ UNCHANGED <<envVars, procVars, batchVars, wallets, settings>>

\* hooks.ts:160-166
DEFAULT_SETTINGS ==
    [preferredCurrency |-> "USD", theme |-> "black", notifications |-> TRUE,
     autoRefresh |-> FALSE, refreshInterval |-> 60000]

\* { ...current, ...settings }
Spread(current, partial) ==
    [f \in DOMAIN current \cup DOMAIN partial |->
        IF f \in DOMAIN partial THEN partial[f] ELSE current[f]]

\* hooks.ts:276-286 getSettings: the stored settings over the defaults
getSettings(blob) ==
    IF blob = Null THEN DEFAULT_SETTINGS ELSE Spread(DEFAULT_SETTINGS, blob)

\* the changes the settings page saves
PartialSettings ==
    { [preferredCurrency |-> "EUR"], [preferredCurrency |-> "USD"],
      [autoRefresh |-> TRUE] }

\* hooks.ts:291-301 saveSettings
saveSettings(partial) ==
    /\ settings' = Spread(getSettings(settings), partial)
    /\ unit' = [op |-> "saveSettings"]
    /\ UNCHANGED <<envVars, storeVars, procVars, batchVars, histVars, wallets>>

\* The tracked wallets, the settings and the two cache blobs under additions,
\* deletions, cache writes, settings changes, clears and damage to the stored
\* blobs.
InitStore ==
    /\ InitCommon
    /\ chain = HistoryOf(1)
    /\ stats = [a \in Addresses |-> StatsOf(7)]
    /\ priceFeed = [up |-> TRUE, usd |-> 3]

NextStore ==
    \/ \E i \in 1..3 : addStoredWallet(i)
    \/ \E id \in WalletIds : deleteStoredWallet(id)
    \/ \E i \in 1..3 : PutBalance(i)
    \/ \E i \in 1..3 : PutTxs(i)
    \/ CorruptBalances
    \/ CorruptTxs
    \/ clearAllCaches
    \/ \E partial \in PartialSettings : saveSettings(partial)

SpecStore == InitStore /\ [][NextStore]_vars

\* the step is a call of deleteStoredWallet
DeleteStep == unit'.op = "delete" /\ (unit' # unit \/ wallets' # wallets)

\* C17: deleting a tracked wallet removes the balance entry and the
\* transaction entry of its address and leaves every other address's entries
\* and every other wallet as they are; deleting an unknown id returns false
\* and changes nothing.
C17_DeleteEvictsOnlyItsAddress ==
    [][DeleteStep =>
          IF unit'.id \in Tracked(wallets)
          THEN /\ unit'.result
               /\ Tracked(wallets') = Tracked(wallets) \ {unit'.id}
               /\ RawEntry(balanceCache', AddrOf(unit'.id)) = Null
               /\ getTxCache(txCache', AddrOf(unit'.id)) = Null
               /\ \A a \in Addresses \ {AddrOf(unit'.id)} :
                     /\ RawEntry(balanceCache', a) = RawEntry(balanceCache, a)
                     /\ getTxCache(txCache', a) = getTxCache(txCache, a)
          ELSE /\ ~unit'.result
               /\ wallets' = wallets
               /\ balanceCache' = balanceCache
               /\ txCache' = txCache]_vars

\* C18: while a stored blob cannot be parsed, reads of it return absence, and
\* a write to it stores the entry, so that the read that follows returns it.
C18_MalformedBlobIsEmptyCache ==
    /\ [](\A a \in Addresses :
            /\ ~Readable(balanceCache) => getBalanceCache(balanceCache, a, now) = Null
            /\ ~Readable(txCache) => getTxCache(txCache, a) = Null)
    /\ [][(~Readable(balanceCache) /\ unit'.op = "saveBalance" /\ unit' # unit) =>
             LET e == getBalanceCache(balanceCache', unit'.address, now')
             IN e # Null /\ e.balance = 7]_vars
    /\ [][(~Readable(txCache) /\ unit'.op = "saveTxs" /\ unit' # unit) =>
             LET e == getTxCache(txCache', unit'.address)
             IN e # Null /\ Len(e.transactions) = 1]_vars

\* C19: a confirmed-page or pending request whose indexer call fails answers
\* no records (and no more pages) instead of throwing, in a sync as in a
\* load-more, and a load-more whose page request failed leaves the
\* transaction cache as it was.
C19_FailedFetchIsEmpty ==
    /\ [][\A p \in Procs :
            LET a == AddrOf(loc[p].w)
            IN /\ (pc[p] = "first" /\ ~loc[p].gotPage /\ loc'[p].gotPage /\ a \in down)
                     => loc'[p].txsResult = [txs |-> <<>>, hasMore |-> FALSE]
               /\ (pc[p] = "first" /\ ~loc[p].gotMempool /\ loc'[p].gotMempool
                      /\ a \in down)
                     => loc'[p].mempoolTxs = <<>>
               /\ (pc[p] = "mempool" /\ pc'[p] = "merge" /\ a \in down)
                     => loc'[p].mempoolTxs = <<>>
               /\ (pc[p] = "idle" /\ pc'[p] = "append" /\ AddrOf(loc'[p].w) \in down)
                     => loc'[p].txsResult = [txs |-> <<>>, hasMore |-> FALSE]
               /\ (LoadMoreReturns(p) /\ ~loc[p].anyOk)
                     => /\ txCache' = txCache
                        /\ loc'[p].result.kind = "more"
                        /\ loc'[p].result.transactions = <<>>
                        /\ ~loc'[p].result.hasMoreTxs]_vars

\* C19 witness: a load-more whose page request failed has returned nothing
\* while the cache still holds the entry with its record and cursor.
C19_Witness ==
    \E p \in Procs :
        /\ Finished1(p, "more")
        /\ ~loc[p].anyOk
        /\ loc[p].result.transactions = <<>>
        /\ EntryOf(AddrOf(1)) # Null
        /\ Len(EntryOf(AddrOf(1)).transactions) > 0
        /\ EntryOf(AddrOf(1)).lastTxId # Undefined

\* what the address endpoint reports for a: confirmed plus unconfirmed funds
IndexerBalance(a) ==
    (stats[a].funded - stats[a].spent) + (stats[a].mfunded - stats[a].mspent)

\* C20: when the price request fails while a sync fetches the balance fresh
\* (in the first attempt or in the retry), the quote balance is 0, the
\* balance is the indexer's, and the balance cache is not written; the
\* snapshot returns the two values.
C20_PriceFailureGivesZeroQuote ==
    /\ [][\A p \in Procs :
            LET a == AddrOf(loc[p].w)
            IN /\ (pc[p] = "balance" /\ pc'[p] \notin {"balance", "fallback"}
                      /\ ~priceFeed.up)
                     => /\ loc'[p].balance = IndexerBalance(a)
                        /\ loc'[p].balanceUSD = 0
                        /\ balanceCache' = balanceCache
               /\ (pc[p] = "fallback" /\ pc'[p] = "done" /\ a \notin down
                      /\ ~priceFeed.up)
                     => /\ loc'[p].result.balance = IndexerBalance(a)
                        /\ loc'[p].result.balanceUSD = 0
                        /\ balanceCache' = balanceCache]_vars
    /\ [](\A p \in Procs :
            (Finished1(p, "sync") /\ loc[p].result.kind = "full") =>
                /\ loc[p].result.balance = loc[p].balance
                /\ loc[p].result.balanceUSD = loc[p].balanceUSD)

\* C20 witness: a sync that fetched a balance of 7 while the price feed was
\* down has returned it with quote balance 0, and the cache holds no entry.
C20_Witness ==
    \E p \in Procs :
        /\ Finished1(p, "sync")
        /\ loc[p].result.kind = "full"
        /\ loc[p].addrCalls = 1
        /\ loc[p].result.balance = 7
        /\ loc[p].result.balanceUSD = 0
        /\ ~priceFeed.up
        /\ Readable(balanceCache)
        /\ RawEntry(balanceCache, AddrOf(loc[p].w)) = Null

(* ------------------------------------------- order of a cache entry *)
\* the records of txs are pending ones followed by confirmed ones
PendingFirst(txs) ==
    \A i, j \in 1..Len(txs) :
        (i < j /\ txs[i].status = "confirmed") => txs[j].status # "pending"

\* C21: in every transaction cache entry that syncs, load-more calls and
\* force refreshes leave, no confirmed record stands before a pending one.
C21_PendingBeforeConfirmed ==
    Readable(txCache) =>
        \A a \in DOMAIN txCache : PendingFirst(txCache[a].transactions)

\* an entry that a sync extended with a pending record in front of confirmed
\* ones and a load-more call extended behind them
C21_Witness ==
    /\ EntryOf(AddrOf(1)) # Null
    /\ \E p \in Procs : loc[p].result.kind = "more" /\ pc[p] = "done"
    /\ LET txs == EntryOf(AddrOf(1)).transactions
       IN /\ Len(txs) >= 2
          /\ txs[1].status = "pending"
          /\ txs[Len(txs)].status = "confirmed"
          /\ <<AddrOf(1), txs[1].id>> \in viaNewer

(* ------------------------------------------- the sync of a cached address *)
\* process p returns from the branch of fetchWalletData that found records in
\* the transaction cache
CachedSyncReturns(p) ==
    /\ pc[p] = "merge" /\ pc'[p] = "done"
    /\ loc[p].op = "sync"

\* C22: a sync of an address whose transaction cache entry holds a record
\* requests the pending transactions only, puts the pending records with new
\* ids in front of the entry, and leaves its cursor and hasMore flag as they
\* were when the sync read the entry.
C22_CachedSyncPrependsOnly ==
    [][\A p \in Procs :
          CachedSyncReturns(p) =>
              LET a == AddrOf(loc[p].w)
                  before == loc[p].txCache
                  after == getTxCache(txCache', a)
                  pending == FormatAll(loc[p].mempoolTxs, a)
              IN /\ loc'[p].pageCalls = 0
                 /\ loc'[p].mempoolCalls = 1
                 /\ after # Null =>
                        /\ after.transactions =
                               SeqFilterOut(pending, Ids(before.transactions))
                                   \o before.transactions
                        /\ after.lastTxId = before.lastTxId
                        /\ after.hasMore = before.hasMore]_vars

\* the same, for the syncs whose entry is still in the cache when the pending
\* records arrive
C22_CachedSyncPrependsWhenKept ==
    [][\A p \in Procs :
          (CachedSyncReturns(p) /\ EntryOf(AddrOf(loc[p].w)) # Null) =>
              LET a == AddrOf(loc[p].w)
                  before == EntryOf(a)
                  after == getTxCache(txCache', a)
                  pending == FormatAll(loc[p].mempoolTxs, a)
              IN /\ before = loc[p].txCache
                 /\ loc'[p].pageCalls = 0
                 /\ loc'[p].mempoolCalls = 1
                 /\ after.transactions =
                        SeqFilterOut(pending, Ids(before.transactions))
                            \o before.transactions
                 /\ after.lastTxId = before.lastTxId
                 /\ after.hasMore = before.hasMore]_vars

(* ------------------------------------- two overlapping syncs of one address *)
\* api.ts:247-284 run without interruption: the transaction cache that one
\* fetchWalletData(address a) leaves when the indexer holds the confirmed ids c
\* and the unconfirmed ids m and answers
SyncedCache(cache, a, c, m) ==
    LET entry == getTxCache(cache, a)
        mempoolTxs == getAddressMempoolTxs(TRUE, m, a)
        txsResult == getAddressTransactionsPage(TRUE, c, a, Undefined)
    IN IF TxBranch(entry) = "mempool"
       THEN IF Len(FormatAll(mempoolTxs, a)) > 0
            THEN prependTxCache(cache, a, FormatAll(mempoolTxs, a))
            ELSE cache
       ELSE saveTxCache(cache, a, FormatAll(AllTxs(mempoolTxs, txsResult.txs), a),
                        txsResult.hasMore, LastTxIdOf(txsResult.txs))

\* the unconfirmed ids that follow a history of h confirmed ones
PendingAfter(h, k) == (h + 1)..(h + k)

\* Two timer firings sync the first address once each while the indexer state
\* stays as it is. The cache is empty, or as a sync at an earlier state of
\* the same history left it.
InitTwin ==
    /\ fresh = [a \in Addresses |-> 0]
    /\ down = {}
    /\ now = 0
    /\ balanceCache = EmptyCache
    /\ pc = [p \in AllProcs |-> "idle"]
    /\ loc = [p \in AllProcs |-> IdleLoc]
    /\ bpc = "idle"
    /\ batch = IdleBatch
    /\ viaNewer = {}
    /\ wallets = <<1, 2, 3>>
    /\ settings = Null
    /\ stats = [a \in Addresses |-> StatsOf(7)]
    /\ priceFeed = [up |-> TRUE, usd |-> 3]
    /\ \E h \in 0..MaxTwin : \E k \in 0..(MaxTwin - h) :
          /\ chain = HistoryOf(h)
          /\ mempool = [a \in Addresses |->
                           IF a = AddrOf(1) THEN PendingAfter(h, k) ELSE {}]
          /\ \E h0 \in 0..h : \E k0 \in 0..(h + k - h0) :
                unit \in
                  { [op |-> "twin", txCache |-> EmptyCache],
                    [op |-> "twin",
                     txCache |-> SyncedCache(EmptyCache, AddrOf(1),
                                             Descending(h0), PendingAfter(h0, k0))] }
    /\ txCache = unit.txCache

NextTwin ==
    \/ \E p \in Twin : SyncStart(p, 1)
    \/ \E p \in Twin : SyncFetchBalance(p)
    \/ \E p \in Twin : SyncFetchMempool(p)
    \/ \E p \in Twin : SyncMerge(p)
    \/ \E p \in Twin : FetchPage(p)
    \/ \E p \in Twin : FetchPending(p)
    \/ \E p \in Twin : SyncSave(p)

SpecTwin == InitTwin /\ [][NextTwin]_vars

\* the transaction cache after the two syncs ran one after the other
TwinSequential ==
    LET a == AddrOf(1)
        once == SyncedCache(unit.txCache, a, chain[a], mempool[a])
    IN SyncedCache(once, a, chain[a], mempool[a])

\* the reference is the model's own sync: the first of the two syncs, run
\* alone, leaves what SyncedCache computes
TwinReferenceIsOneSync ==
    (Finished1("p1", "sync") /\ pc["p2"] = "idle") =>
        txCache = SyncedCache(unit.txCache, AddrOf(1), chain[AddrOf(1)],
                              mempool[AddrOf(1)])

BothSynced == \A p \in Twin : Finished1(p, "sync")

\* C23: two syncs of one address whose steps interleave leave a transaction
\* cache entry without duplicate ids, the entry that the two syncs leave when
\* one runs after the other against the same indexer state.
C23_InterleavedSyncsAsSequential ==
    BothSynced =>
        /\ NoDuplicateIds(EntryOf(AddrOf(1)).transactions)
        /\ txCache = TwinSequential

\* both syncs read the cache before either wrote it, and the entry they leave
\* holds a pending record in front of a confirmed one
C23_Witness ==
    /\ BothSynced
    /\ \A p \in Twin : loc[p].pageCalls = 1
    /\ EntryOf(AddrOf(1)) # Null
    /\ Len(EntryOf(AddrOf(1)).transactions) >= 2
    /\ EntryOf(AddrOf(1)).transactions[1].status = "pending"

(* --------------------------------------------- the order of a batch sync *)
\* the indexer and price requests a call has issued so far
Requests(l) == l.addrCalls + l.priceCalls + l.pageCalls + l.mempoolCalls

\* a step of the batch sync that issues a request for one of its wallets: a
\* request of the wallet's fetchWalletData, or the zero-balance re-fetch
BatchRequestStep ==
    \/ Requests(loc'[BatchProc]) > Requests(loc[BatchProc])
    \/ bpc = "refetch" /\ bpc' # "refetch"

\* the wallet a request step of the batch sync is for
BatchRequestWallet ==
    IF bpc = "refetch" THEN batch.cur.id ELSE StoredWallet(loc[BatchProc].w).id

\* C24: when a batch sync issues an indexer or price request for a wallet, the
\* single-wallet syncs of all wallets before it in the list, zero-balance
\* re-fetch included, have returned and their snapshots are collected in list
\* order; the request is for the wallet at the loop's position.
C24_BatchIsSequential ==
    [][BatchRequestStep =>
          /\ bpc \in {"sync", "refetch"}
          /\ batch.i \in 1..Len(batch.ws)
          /\ BatchRequestWallet = StoredWallet(batch.ws[batch.i]).id
          /\ Len(batch.wallets) = batch.i - 1
          /\ \A k \in 1..Len(batch.wallets) :
                /\ batch.wallets[k].id = StoredWallet(batch.ws[k]).id
                /\ batch.wallets[k].kind # "none"
          /\ bpc = "sync" => batch.cur = NoSnapshot]_vars

\* the second wallet of a batch is being synced and has issued a request,
\* after the first wallet's sync gave zero and its re-fetch was made
C24_Witness ==
    /\ bpc = "sync"
    /\ batch.i = 2
    /\ Requests(loc[BatchProc]) > 0
    /\ Len(batch.trace) = 1
    /\ batch.trace[1].refetches = 1

(* ------------------------------------------------------------- clear() *)
\* the step is a call of clearAllCaches that follows another direct call
ClearStep == unit'.op = "clear" /\ unit.op # "clear"

\* C25: clearAllCaches leaves no balance entry and no transaction entry of
\* any address, readable blobs or not, and leaves the tracked wallets and the
\* settings as they were.
C25_ClearRemovesCachesOnly ==
    [][ClearStep =>
          /\ \A a \in Addresses :
                /\ getBalanceCache(balanceCache', a, now) = Null
                /\ RawEntry(balanceCache', a) = Null
                /\ getTxCache(txCache', a) = Null
          /\ Readable(balanceCache') /\ Readable(txCache')
          /\ wallets' = wallets
          /\ settings' = settings
          /\ getSettings(settings') = getSettings(settings)]_vars

\* a clear has emptied caches that held entries, with a changed wallet list
\* and changed settings in place
C25_Witness ==
    /\ unit.op = "clear"
    /\ balanceCache = EmptyCache /\ txCache = EmptyCache
    /\ wallets # <<1, 2, 3>>
    /\ settings # Null
    /\ getSettings(settings).preferredCurrency = "EUR"

(* ------------------------------------------------ the confirmed-page fetch *)
\* the answer to a confirmed-page request: hasMore exactly for a full page
FullPageIffMore(r) ==
    /\ r.hasMore <=> Len(r.txs) = PAGE_SIZE
    /\ Len(r.txs) <= PAGE_SIZE

\* C26: getAddressTransactionsPage gives hasMore = true exactly when the page
\* it returns holds the full page size of 25 records; an empty page, a
\* shorter page and a failed request give hasMore = false. Stated for the
\* answers in flight and for the function applied to the current history with
\* every cursor a caller may pass, the indexer answering or not.
C26_HasMoreIffFullPage ==
    /\ \A p \in Procs : FullPageIffMore(loc[p].txsResult)
    /\ \A ok \in BOOLEAN : \A c \in Cursors(AddrOf(1)) \cup {Undefined} :
          LET a == AddrOf(1)
              r == getAddressTransactionsPage(ok, chain[a], a, c)
          IN /\ FullPageIffMore(r)
             /\ ~ok => (r.txs = <<>> /\ ~r.hasMore)
             /\ (ok /\ c = Undefined) => Len(r.txs) = Min(PAGE_SIZE, Len(chain[a]))

\* a load-more call holds a full page of a longer history with hasMore set,
\* while the cache has an entry for the address
C26_Witness ==
    \E p \in Procs :
        /\ pc[p] = "append"
        /\ Len(loc[p].txsResult.txs) = PAGE_SIZE
        /\ loc[p].txsResult.hasMore
        /\ EntryOf(AddrOf(1)) # Null

(* -------------------------------------------------------- self-transfers *)
\* the watched address funds an input of tx and every output of tx pays it
SelfTransfer(tx) ==
    /\ InInputs(tx)
    /\ \A k \in DOMAIN tx.vout : tx.vout[k].scriptpubkey_address = AddrOf(1)

\* C27: a raw transaction with an input from the watched address whose
\* outputs all pay the watched address is classified send with amount 0.
C27_SelfTransferIsSendOfZero ==
    (unit.op = "classified" /\ SelfTransfer(unit.tx)) =>
        /\ unit.result # Null
        /\ unit.result.type = "send"
        /\ unit.result.amount = 0
        /\ unit.result.from = AddrOf(1)

\* a classified self-transfer with two outputs that carry value
C27_Witness ==
    /\ unit.op = "classified"
    /\ SelfTransfer(unit.tx)
    /\ Len(unit.tx.vout) = 2
    /\ unit.tx.vout[1].value > 0
    /\ unit.result.type = "send"

(* --------------------------------------- the cursor of a longer history *)
\* confirmed history lengths at the start: none, and two pages and one more
DeepHistories == {0, 2 * PAGE_SIZE + 1}

\* The cursors that snapshots and load-more results have handed to the caller
\* and that the cache entry holds (a sync returns the entry's cursor).
ExposedCursors(a) ==
    ( {loc[p].result.lastTxId : p \in AllProcs}
      \cup (IF getTxCache(txCache, a) = Null THEN {}
            ELSE {getTxCache(txCache, a).lastTxId}) ) \ {Undefined}

\* Navbar.tsx:217-222: load more with a cursor the caller was given
LoadMoreExposed(p, i) == \E c \in ExposedCursors(AddrOf(i)) : LoadMoreStart(p, i, c)

\* no call is in flight
Quiet == \A p \in Twin : pc[p] \in {"idle", "done"}

\* One address with no history or more than two pages of it. A caller syncs
\* and force-refreshes and keeps the snapshot until it takes the next one; a
\* second caller loads more with the cursors exposed so far. The calls run one
\* after the other; between them a first new transaction may arrive and confirm.
InitDeep ==
    /\ InitCommon
    /\ \E h \in DeepHistories : chain = HistoryOf(h)
    /\ stats = [a \in Addresses |-> StatsOf(7)]
    /\ priceFeed = [up |-> TRUE, usd |-> 3]

\* the calls of SpecDeep start when no other call is in flight
QuietSync == Quiet /\ SyncStart("p1", 1)
QuietForce == Quiet /\ ForceStart("p1", 1)
QuietLoadMore == Quiet /\ LoadMoreExposed("p2", 1)
\* the indexer's view changes between two calls
QuietBroadcast == Quiet /\ BroadcastFirst(AddrOf(1))
QuietConfirm == Quiet /\ Confirm(AddrOf(1))

NextDeep ==
    \/ QuietSync
    \/ SyncFetchBalance("p1")
    \/ SyncFetchMempool("p1")
    \/ SyncMerge("p1")
    \/ FetchPage("p1")
    \/ FetchPending("p1")
    \/ SyncSave("p1")
    \/ QuietForce
    \/ ForceSave("p1")
    \/ QuietLoadMore
    \/ LoadMoreAppend("p2")
    \/ \E p \in Twin : Return(p)
    \/ QuietBroadcast
    \/ QuietConfirm

SpecDeep == InitDeep /\ [][NextDeep]_vars

\* the cursor of entry e is the id of the last confirmed record of its sequence
CursorAtLastConfirmed(e) ==
    LET txs == e.transactions
        confirmed == {k \in 1..Len(txs) : txs[k].status = "confirmed"}
    IN confirmed # {} =>
          e.lastTxId = txs[CHOOSE k \in confirmed : \A j \in confirmed : j <= k].id

\* C28 as claimed: whenever the cache entry holds a confirmed record, its
\* cursor is the id of the last confirmed record of its sequence, after any
\* sequence of syncs, force refreshes and load-more calls with exposed cursors.
C28_CursorIsLastConfirmed ==
    EntryOf(AddrOf(1)) # Null => CursorAtLastConfirmed(EntryOf(AddrOf(1)))

\* the load-more call of p returns after it asked for the page behind a
\* cursor that is not the one the entry holds
StaleLoadMoreReturns(p) ==
    /\ LoadMoreReturns(p)
    /\ EntryOf(AddrOf(1)) # Null
    /\ loc[p].afterTxId # EntryOf(AddrOf(1)).lastTxId

\* C28 amended: every sync, every force refresh and every load-more call made
\* with the cursor the entry holds leaves the cursor at the id of the last
\* confirmed record of the entry, if it was there before (an absent entry
\* counts as such); only a load-more call with an older cursor moves it away.
C28_FrontierKeepsCursor ==
    [][( /\ C28_CursorIsLastConfirmed
         /\ ~ \E p \in Twin : StaleLoadMoreReturns(p) )
       => (EntryOf(AddrOf(1)) # Null => CursorAtLastConfirmed(EntryOf(AddrOf(1))))']_vars

\* load-more calls at the frontier have brought the whole history of more than
\* two pages into the entry, with the cursor at its oldest record
C28_Witness ==
    /\ Finished1("p2", "more")
    /\ EntryOf(AddrOf(1)) # Null
    /\ Len(EntryOf(AddrOf(1)).transactions) > 2 * PAGE_SIZE
    /\ EntryOf(AddrOf(1)).lastTxId = 1
    /\ ~EntryOf(AddrOf(1)).hasMore

(* ------------------------------------ a sync overtaken by an eviction *)
\* entry e holds pending records only and presents them as the whole history
PendingOnlyComplete(e) ==
    /\ e.transactions # <<>>
    /\ \A k \in 1..Len(e.transactions) : e.transactions[k].status = "pending"
    /\ ~e.hasMore
    /\ e.lastTxId = Undefined

HasConfirmed(txs) == \E k \in 1..Len(txs) : txs[k].status = "confirmed"

\* the sync of p writes the transaction cache in this step, and the address
\* had confirmed transactions when the sync looked: in the entry it read, or
\* in the page it was given
SyncWritesForConfirmed(p) ==
    /\ loc[p].op = "sync"
    /\ pc[p] \in {"merge", "first"} /\ pc'[p] = "done"
    /\ txCache' # txCache
    /\ \/ pc[p] = "merge" /\ HasConfirmed(loc[p].txCache.transactions)
       \/ pc[p] = "first" /\ loc[p].txsResult.txs # <<>>

\* C29: whatever eviction or clear falls between the steps of a sync, the
\* entry the sync writes for an address with confirmed transactions holds
\* confirmed records of the first page, and is not an entry of pending
\* records only with hasMore = false and no cursor.
C29_SyncNeverWritesPendingOnly ==
    [][\A p \in Procs :
          SyncWritesForConfirmed(p) =>
              LET after == getTxCache(txCache', AddrOf(loc[p].w))
              IN /\ after # Null
                 /\ HasConfirmed(after.transactions)
                 /\ ~PendingOnlyComplete(after)]_vars

(* ------------------------------------- what a sync shows of the first page *)
\* the ids of the indexer's first confirmed page of address a
FirstPageIds(a) == {chain[a][k] : k \in 1..Min(PAGE_SIZE, Len(chain[a]))}

\* the sync of p returns from its try block, not from the fallback
SyncReturnsNormally(p) ==
    /\ loc[p].op = "sync"
    /\ pc[p] \in {"merge", "first"} /\ pc'[p] = "done"

\* C30: the transaction list of every sync that returns on its normal path
\* holds every transaction of the indexer's first confirmed page as it is
\* then, those included that confirmed after the cache entry was written and
\* that no sync saw pending. The indexer does not change while a call runs.
C30_SyncShowsFirstPage ==
    [][\A p \in Twin :
          SyncReturnsNormally(p) =>
              FirstPageIds(AddrOf(loc[p].w))
                  \subseteq Ids(loc'[p].result.transactions)]_vars

====
